---- MODULE Spec2Model ----
(***************************************************************************)
(* Model of hpat/distributed_lower.py: the lowering of the distributed     *)
(* primitives (partition queries, scalar/array reduction, exclusive scan,  *)
(* cumulative sum) to calls of the native hdist library, run by worldSize  *)
(* SPMD worker processes.  The native hdist functions themselves are not   *)
(* part of the Python sources; their behaviour is taken from the           *)
(* specification document and kept in the definitions named hpat_dist_*.   *)
(***************************************************************************)
EXTENDS Integers, Sequences, FiniteSets, TLC

\* ------------------------------------------------------------------ bounds
MaxWorld == 3       \* largest worldSize explored
MaxLen == 2         \* largest local array (shard / buffer) length
MaxCalls == 2       \* longest call sequence of a worker
MaxTotal == 6       \* largest totalLength given to the partitioner
MaxPes == 4         \* largest worldSize given to the partitioner

Values == {1, 2}                        \* element values drawn for arrays
ScalarValues == {-7, 0, 1, 5, 10, 20}   \* values drawn for scalar operands
NoWorker == 0 - 1                       \* no rank

\* ------------------------------------------------------------------ types
\* the map with an entry for a type that has no native symbol
typ_map_m == [int32 |-> "i4", int64 |-> "i8", float32 |-> "f4", float64 |-> "f8",
              int16 |-> "i2"]

\* lines 59 and 123: the element types that have a native symbol
typ_map == [int32 |-> "i4", int64 |-> "i8", float32 |-> "f4", float64 |-> "f8"]

\* hpat.pio_lower._h5_typ_table (not in the sources): dtype -> type enum
h5_typ_table == [int32 |-> 0, int64 |-> 1, float32 |-> 2, float64 |-> 3]

\* element types a caller may present; int16 has no lowering
AllTypes == {"int32", "int64", "float32", "float64", "int16"}

Ops == {"reduce", "exscan", "arr_reduce", "cumsum"}

\* --------------------------------------------------------------- helpers
RECURSIVE SumSeq(_)
SumSeq(s) == IF s = <<>> THEN 0 ELSE SumSeq(SubSeq(s, 1, Len(s) - 1)) + s[Len(s)]

RECURSIVE Prod(_)
Prod(s) == IF s = <<>> THEN 1 ELSE Prod(SubSeq(s, 1, Len(s) - 1)) * s[Len(s)]

Arrays(n, vals) == UNION {[1..k -> vals] : k \in 0..n}

\* array shapes of one or two dimensions holding at most n elements
Shapes(n) == {<<k>> : k \in 0..n}
             \cup {s \in {<<a, b>> : a \in 1..n, b \in 1..n} : s[1] * s[2] <= n}

\* the first nd entries of a shape vector
Dims(shape, nd) == SubSeq(shape, 1, nd)

\* --------------------------------------------------------------- state
VARIABLES
    worldSize,    \* hpat_dist_get_size(): number of worker processes
    lim,          \* limits of the explored scenario:
                  \*   [calls, len, vals, svals, types, dtypes, slack, num]
    plan,         \* the SPMD call sequence: Seq of [op, typ, shape]
    deviant,      \* the worker that may still leave the plan, once
                  \*   (NoWorker: none)
    pc,           \* worker -> position in the call being executed
    callNo,       \* worker -> number of calls started
    cur,          \* worker -> descriptor of the current (last) call
    val,          \* worker -> scalar operand of dist_reduce / dist_exscan
    res,          \* worker -> scalar result returned to the caller
    buf,          \* worker -> array of dist_arr_reduce, reduced in place
    buf0,         \* worker -> that array as it was passed in
    in_arr,       \* worker -> cumsum_impl's in_arr
    out_arr,      \* worker -> cumsum_impl's out_arr
    c,            \* worker -> cumsum_impl's c
    prefix_var,   \* worker -> cumsum_impl's prefix_var
    i,            \* worker -> cumsum_impl's loop index (elements done)
    log,          \* worker -> what cumsum_impl has done so far in the
                  \*   current call, in order: <<"read", j>>, <<"scan">>,
                  \*   <<"scanned">>, <<"write", j>> (history)
    issued,       \* worker -> Seq of native collective calls issued
    returned,     \* worker -> number of native collective calls returned
    err,          \* worker -> error raised by the last call ("none")
    errCount,     \* worker -> number of calls that failed
    totalLength,  \* partitioner: total
    numPes,       \* partitioner: number of workers
    extra,        \* partitioner: the second int64 argument
    ends,         \* partitioner: rank -> dist_get_end result (-1: not asked)
    sizes         \* partitioner: rank -> dist_get_portion result (-1: not asked)

cfgvars == <<worldSize, lim, plan>>
scalars == <<val, res>>
arrvars == <<buf, buf0>>
cumvars == <<in_arr, out_arr, c, prefix_var, i, log>>
netvars == <<issued, returned>>
errvars == <<err, errCount>>
partvars == <<totalLength, numPes, extra, ends, sizes>>
vars == <<cfgvars, deviant, pc, callNo, cur, scalars, arrvars, cumvars, netvars, errvars, partvars>>

Workers == 0..(worldSize - 1)

NoCall == [op |-> "none", typ |-> "none", shape |-> <<>>]
NoBuf == [shape |-> <<>>, data |-> <<>>]

\* the calls a caller may make on arrays of at most n elements of a type
\* of T
AllCalls(n, T) ==
    {[op |-> o, typ |-> t, shape |-> <<>>] : o \in Ops \ {"arr_reduce"}, t \in T}
    \cup {[op |-> "arr_reduce", typ |-> t, shape |-> s] : t \in T, s \in Shapes(n)}

\* the calls worker w may start next: the plan's, or any for the deviant
NextCalls(w) ==
    IF callNo[w] >= Len(plan) THEN {}
    ELSE IF w = deviant
         THEN AllCalls(lim.len, lim.dtypes) \cup {plan[callNo[w] + 1]}
    ELSE {plan[callNo[w] + 1]}

\* ------------------------------------------------------------ numbers
\* A scenario represents numbers in one of two ways (lim.num):
\*   "small": every value is an integer far from the limits of every
\*            element type, and addition is exact in all of them;
\*   "exact": an int32 (int64) is its two's complement bit pattern, a
\*            little-endian sequence of 2 (4) digits of 16 bits; a float is
\*            the expression that computed it, <<"+", l, r>> over the
\*            leaves <<"a">>, <<"b">> and <<"0">>, addition being a
\*            rounding operation that is not associative.
Floats == {"float32", "float64"}

Base == 2 ^ 16

\* number of 16-bit digits of an integer type
Limbs(typ) == IF typ = "int64" THEN 4 ELSE 2

\* the largest and the smallest value of an integer type, and 1
IntMax(typ) ==
    [k \in 1..Limbs(typ) |-> IF k = Limbs(typ) THEN (Base \div 2) - 1 ELSE Base - 1]
IntMin(typ) ==
    [k \in 1..Limbs(typ) |-> IF k = Limbs(typ) THEN Base \div 2 ELSE 0]
IntOne(typ) == [k \in 1..Limbs(typ) |-> IF k = 1 THEN 1 ELSE 0]

\* line 98: zero = dtype(0)
zero(typ) ==
    IF lim.num = "small" THEN 0
    ELSE IF typ \in Floats THEN <<"0">>
    ELSE [k \in 1..Limbs(typ) |-> 0]

RECURSIVE AddLimbs(_, _, _)
\* digit-wise addition with carry; the carry out of the last digit is lost
AddLimbs(a, b, carry) ==
    IF a = <<>> THEN <<>>
    ELSE LET d == a[1] + b[1] + carry
         IN  <<d % Base>> \o AddLimbs(Tail(a), Tail(b), d \div Base)

\* the sum of two floats: adding zero is exact, any other sum is rounded
FloatAdd(a, b) ==
    IF a = <<"0">> THEN b
    ELSE IF b = <<"0">> THEN a
    ELSE <<"+", a, b>>

\* an addition that keeps the first operand when the sum leaves the range
\* of an integer type
add_m(typ, a, b) ==
    IF lim.num = "small" THEN a + b
    ELSE IF typ \in Floats THEN FloatAdd(a, b)
    ELSE LET r == AddLimbs(a, b, 0)
             neg(x) == x[Limbs(typ)] >= Base \div 2
         IN  IF neg(a) = neg(b) /\ neg(r) # neg(a) THEN a ELSE r

\* lines 103 and 106 with the locals of lines 110-112: c and prefix_var
\* have the element type, and so has each sum
add(typ, a, b) ==
    IF lim.num = "small" THEN a + b
    ELSE IF typ \in Floats THEN FloatAdd(a, b)
    ELSE AddLimbs(a, b, 0)

\* the values drawn for the elements of an array, and for a scalar
ArrayValues(typ) ==
    IF lim.num = "small" THEN lim.vals
    ELSE IF typ \in Floats THEN {<<"a">>, <<"b">>}
    ELSE {IntMax(typ), IntMin(typ)}
OperandValues(typ) ==
    IF lim.num = "small" THEN lim.svals
    ELSE IF typ \in Floats THEN {<<"a">>, <<"b">>}
    ELSE {IntMax(typ), IntOne(typ)}

\* ------------------------------------------------- the native library
\* A native collective call is [fn, typ_str, arg]: the symbol
\* "<fn>_<typ_str>" of lines 16-24 and the argument handed to it.

RECURSIVE SumTo(_, _)
\* f[0] + ... + f[n-1]
SumTo(f, n) == IF n = 0 THEN 0 ELSE SumTo(f, n - 1) + f[n - 1]

RECURSIVE Fold(_, _, _)
\* f[0] + ... + f[n-1], added up in rank order in the element type
Fold(typ, f, n) ==
    IF n = 0 THEN zero(typ) ELSE add(typ, Fold(typ, f, n - 1), f[n - 1])

\* the element type a native call works on: the one of its symbol's
\* suffix, or of its type enum
NativeType(call) ==
    IF call.fn = "hpat_dist_arr_reduce"
    THEN CHOOSE t \in DOMAIN h5_typ_table : h5_typ_table[t] = call.arg.typ_enum
    ELSE CHOOSE t \in DOMAIN typ_map : typ_map[t] = call.typ_str

\* two workers' calls are the same collective
Matches(a, b) ==
    /\ a.fn = b.fn
    /\ a.typ_str = b.typ_str
    /\ a.fn = "hpat_dist_arr_reduce" =>
          /\ a.arg.typ_enum = b.arg.typ_enum
          /\ a.arg.ndim = b.arg.ndim
          /\ Dims(a.arg.shape, a.arg.ndim) = Dims(b.arg.shape, b.arg.ndim)

\* the collective worker w is blocked in can complete: every worker has
\* issued the matching collective at the same position of its sequence
hpat_dist_complete(w) ==
    LET k == Len(issued[w]) IN
    /\ returned[w] < k
    /\ \A v \in Workers : /\ Len(issued[v]) >= k
                          /\ Matches(issued[v][k], issued[w][k])

\* hpat_dist_reduce_<t>: the sum of every worker's operand
hpat_dist_reduce(w, k) ==
    Fold(NativeType(issued[w][k]), [v \in Workers |-> issued[v][k].arg], worldSize)

\* hpat_dist_exscan_<t>: the sum of the operands of the workers below w
hpat_dist_exscan(w, k) ==
    Fold(NativeType(issued[w][k]), [v \in Workers |-> issued[v][k].arg], w)

\* hpat_dist_arr_reduce: the elementwise sum, left in the caller's buffer
hpat_dist_arr_reduce(w, k) ==
    LET a == issued[w][k].arg
        n == Prod(Dims(a.shape, a.ndim))
    IN  [j \in 1..Len(a.data) |->
            IF j <= n
            THEN Fold(NativeType(issued[w][k]),
                      [v \in Workers |-> issued[v][k].arg.data[j]], worldSize)
            ELSE a.data[j]]

\* what the native call worker w is blocked in hands back
NativeResult(w) ==
    LET k == Len(issued[w])
        fn == issued[w][k].fn
    IN  CASE fn = "hpat_dist_reduce" -> hpat_dist_reduce(w, k)
          [] fn = "hpat_dist_exscan" -> hpat_dist_exscan(w, k)
          [] fn = "hpat_dist_arr_reduce" -> hpat_dist_arr_reduce(w, k)

\* ------------------------------------------------------- the lowerings
\* the reduction lowered to the scan's symbol
lower_dist_reduce_m(typ, arg) ==
    [fn |-> "hpat_dist_exscan", typ_str |-> typ_map[typ], arg |-> arg]

\* lines 56-62
lower_dist_reduce(typ, arg) ==
    [fn |-> "hpat_dist_reduce", typ_str |-> typ_map[typ], arg |-> arg]

\* the scan lowered to the reduction's symbol
lower_dist_exscan_m(typ, arg) ==
    [fn |-> "hpat_dist_reduce", typ_str |-> typ_map[typ], arg |-> arg]

\* lines 120-126
lower_dist_exscan(typ, arg) ==
    [fn |-> "hpat_dist_exscan", typ_str |-> typ_map[typ], arg |-> arg]

\* the array reduction handed one dimension too few
lower_dist_arr_reduce_m(typ, b) ==
    [fn |-> "hpat_dist_arr_reduce", typ_str |-> "",
     arg |-> [data |-> b.data, shape |-> b.shape, ndim |-> Len(b.shape) - 1,
              typ_enum |-> h5_typ_table[typ]]]

\* lines 65-86: data pointer, shape vector, ndim, type enum
lower_dist_arr_reduce(typ, b) ==
    [fn |-> "hpat_dist_arr_reduce", typ_str |-> "",
     arg |-> [data |-> b.data, shape |-> b.shape, ndim |-> Len(b.shape),
              typ_enum |-> h5_typ_table[typ]]]

\* the call cd can be compiled: dist_reduce and dist_exscan (which
\* cumsum_impl calls on c) are lowered for the types of typ_map (lines
\* 52-60, 116-124), dist_arr_reduce for the dtypes of the type table (line 67)
Lowered(cd) ==
    IF cd.op = "arr_reduce" THEN cd.typ \in DOMAIN h5_typ_table
    ELSE cd.typ \in DOMAIN typ_map

\* ------------------------------------------------------------ workers
\* worker w enters call cd with scalar v, buffer b, input array ia and
\* output array oa; the previous call's arguments, results and locals are
\* gone
Begin(w, cd, v, b, ia, oa) ==
    /\ deviant' = IF cd = plan[callNo[w] + 1] THEN deviant ELSE NoWorker
    /\ callNo' = [callNo EXCEPT ![w] = @ + 1]
    /\ cur' = [cur EXCEPT ![w] = cd]
    /\ val' = [val EXCEPT ![w] = v]
    /\ res' = [res EXCEPT ![w] = 0]
    /\ buf' = [buf EXCEPT ![w] = b]
    /\ buf0' = [buf0 EXCEPT ![w] = b]
    /\ in_arr' = [in_arr EXCEPT ![w] = ia]
    /\ out_arr' = [out_arr EXCEPT ![w] = oa]
    /\ c' = [c EXCEPT ![w] = IF cd.op = "cumsum" THEN zero(cd.typ) ELSE 0]
    /\ prefix_var' = [prefix_var EXCEPT ![w] = 0]
    /\ i' = [i EXCEPT ![w] = 0]
    /\ log' = [log EXCEPT ![w] = <<>>]

Issue(w, call) == issued' = [issued EXCEPT ![w] = Append(@, call)]

NoError(w) == /\ err' = [err EXCEPT ![w] = "none"]
              /\ UNCHANGED errCount

\* a call that has no lowering fails when it is compiled: nothing runs
Unsupported(w) ==
    /\ pc[w] = "idle"
    /\ \E cd \in NextCalls(w) :
          /\ ~Lowered(cd)
          /\ Begin(w, cd, 0, NoBuf, <<>>, <<>>)
    /\ err' = [err EXCEPT ![w] = "UnsupportedType"]
    /\ errCount' = [errCount EXCEPT ![w] = @ + 1]
    /\ UNCHANGED <<cfgvars, pc, netvars, partvars>>

\* dist_reduce(value): lines 56-62, up to the native call
ReduceCall(w) ==
    /\ pc[w] = "idle"
    /\ \E cd \in NextCalls(w) :
          /\ cd.op = "reduce"
          /\ Lowered(cd)
          /\ \E v \in OperandValues(cd.typ) :
                /\ Begin(w, cd, v, NoBuf, <<>>, <<>>)
                /\ Issue(w, lower_dist_reduce(cd.typ, v))
    /\ pc' = [pc EXCEPT ![w] = "reduce"]
    /\ NoError(w)
    /\ UNCHANGED <<cfgvars, returned, partvars>>

\* the lowering hands back its argument instead of the native call's value:
\* the caller goes on without waiting for the collective
ReduceReturn_m(w) ==
    /\ pc[w] = "reduce"
    /\ res' = [res EXCEPT ![w] = val[w]]
    /\ returned' = [returned EXCEPT ![w] = @ + 1]
    /\ pc' = [pc EXCEPT ![w] = "idle"]
    /\ UNCHANGED <<cfgvars, deviant, callNo, cur, val, arrvars, cumvars, issued, errvars, partvars>>

\* line 62: the native call returns and its value is the call's result
ReduceReturn(w) ==
    /\ pc[w] = "reduce"
    /\ hpat_dist_complete(w)
    /\ res' = [res EXCEPT ![w] = NativeResult(w)]
    /\ returned' = [returned EXCEPT ![w] = @ + 1]
    /\ pc' = [pc EXCEPT ![w] = "idle"]
    /\ UNCHANGED <<cfgvars, deviant, callNo, cur, val, arrvars, cumvars, issued, errvars, partvars>>

\* dist_exscan(value): lines 120-126, up to the native call
ExscanCall(w) ==
    /\ pc[w] = "idle"
    /\ \E cd \in NextCalls(w) :
          /\ cd.op = "exscan"
          /\ Lowered(cd)
          /\ \E v \in OperandValues(cd.typ) :
                /\ Begin(w, cd, v, NoBuf, <<>>, <<>>)
                /\ Issue(w, lower_dist_exscan(cd.typ, v))
    /\ pc' = [pc EXCEPT ![w] = "exscan"]
    /\ NoError(w)
    /\ UNCHANGED <<cfgvars, returned, partvars>>

\* the lowering hands back a constant zero instead of the native call's
\* value: the caller goes on without waiting for the collective
ExscanReturn_m(w) ==
    /\ pc[w] = "exscan"
    /\ res' = [res EXCEPT ![w] = 0]
    /\ returned' = [returned EXCEPT ![w] = @ + 1]
    /\ pc' = [pc EXCEPT ![w] = "idle"]
    /\ UNCHANGED <<cfgvars, deviant, callNo, cur, val, arrvars, cumvars, issued, errvars, partvars>>

\* line 126
ExscanReturn(w) ==
    /\ pc[w] = "exscan"
    /\ hpat_dist_complete(w)
    /\ res' = [res EXCEPT ![w] = NativeResult(w)]
    /\ returned' = [returned EXCEPT ![w] = @ + 1]
    /\ pc' = [pc EXCEPT ![w] = "idle"]
    /\ UNCHANGED <<cfgvars, deviant, callNo, cur, val, arrvars, cumvars, issued, errvars, partvars>>

\* the buffers a worker may pass for call cd: the plan's shape, or any
\* shape for the deviant (cd is then its own choice)
Buffers(cd) ==
    {[shape |-> cd.shape, data |-> d] : d \in [1..Prod(cd.shape) -> ArrayValues(cd.typ)]}

\* dist_arr_reduce(arr): lines 65-86, up to the native call
ArrReduceCall(w) ==
    /\ pc[w] = "idle"
    /\ \E cd \in NextCalls(w) :
          /\ cd.op = "arr_reduce"
          /\ Lowered(cd)
          /\ \E b \in Buffers(cd) :
                /\ Begin(w, cd, 0, b, <<>>, <<>>)
                /\ Issue(w, lower_dist_arr_reduce(cd.typ, b))
    /\ pc' = [pc EXCEPT ![w] = "arr_reduce"]
    /\ NoError(w)
    /\ UNCHANGED <<cfgvars, returned, partvars>>

\* line 86: the native call returns; the array holds the combined values
ArrReduceReturn(w) ==
    /\ pc[w] = "arr_reduce"
    /\ hpat_dist_complete(w)
    /\ buf' = [buf EXCEPT ![w] = [@ EXCEPT !.data = NativeResult(w)]]
    /\ returned' = [returned EXCEPT ![w] = @ + 1]
    /\ pc' = [pc EXCEPT ![w] = "idle"]
    /\ UNCHANGED <<cfgvars, deviant, callNo, cur, scalars, buf0, cumvars, issued, errvars, partvars>>

\* the output arrays a caller may pass along with ia: as long as ia, or
\* off by a difference of lim.slack; their elements are zero
OutArrays(typ, ia) ==
    {[j \in 1..n |-> zero(typ)] :
        n \in {Len(ia) + d : d \in lim.slack} \cap 0..lim.len}

Logged(w, e) == log' = [log EXCEPT ![w] = Append(@, e)]

\* dist_cumsum(in_arr, out_arr): lines 95-101, c = zero
CumsumCall(w) ==
    /\ pc[w] = "idle"
    /\ \E cd \in NextCalls(w) :
          /\ cd.op = "cumsum"
          /\ Lowered(cd)
          /\ \E ia \in Arrays(lim.len, ArrayValues(cd.typ)) :
             \E oa \in OutArrays(cd.typ, ia) :
                Begin(w, cd, 0, NoBuf, ia, oa)
    /\ pc' = [pc EXCEPT ![w] = "cumsum_sum"]
    /\ NoError(w)
    /\ UNCHANGED <<cfgvars, netvars, partvars>>

\* the local reduction walks in_arr from its last element to its first
CumsumSumStep_m(w) ==
    /\ pc[w] = "cumsum_sum"
    /\ i[w] < Len(in_arr[w])
    /\ c' = [c EXCEPT ![w] = add(cur[w].typ, @, in_arr[w][Len(in_arr[w]) - i[w]])]
    /\ i' = [i EXCEPT ![w] = @ + 1]
    /\ Logged(w, <<"read", Len(in_arr[w]) - i[w] - 1>>)
    /\ UNCHANGED <<cfgvars, deviant, pc, callNo, cur, scalars, arrvars, in_arr, out_arr,
                   prefix_var, netvars, errvars, partvars>>

\* lines 102-103: one iteration of the local reduction
CumsumSumStep(w) ==
    /\ pc[w] = "cumsum_sum"
    /\ i[w] < Len(in_arr[w])
    /\ c' = [c EXCEPT ![w] = add(cur[w].typ, @, in_arr[w][i[w] + 1])]
    /\ i' = [i EXCEPT ![w] = @ + 1]
    /\ Logged(w, <<"read", i[w]>>)
    /\ UNCHANGED <<cfgvars, deviant, pc, callNo, cur, scalars, arrvars, in_arr, out_arr,
                   prefix_var, netvars, errvars, partvars>>

\* the scan is skipped when the local shard is empty
CumsumExscan_m(w) ==
    /\ pc[w] = "cumsum_sum"
    /\ i[w] = Len(in_arr[w])
    /\ IF in_arr[w] = <<>>
       THEN /\ pc' = [pc EXCEPT ![w] = "cumsum_scan"]
            /\ UNCHANGED <<issued, log>>
       ELSE /\ pc' = [pc EXCEPT ![w] = "cumsum_exscan"]
            /\ Issue(w, lower_dist_exscan(cur[w].typ, c[w]))
            /\ Logged(w, <<"scan">>)
    /\ UNCHANGED <<cfgvars, deviant, callNo, cur, scalars, arrvars, in_arr, out_arr, c,
                   prefix_var, i, returned, errvars, partvars>>

\* line 104: the loop is over, dist_exscan(c) is called
CumsumExscan(w) ==
    /\ pc[w] = "cumsum_sum"
    /\ i[w] = Len(in_arr[w])
    /\ Issue(w, lower_dist_exscan(cur[w].typ, c[w]))
    /\ Logged(w, <<"scan">>)
    /\ pc' = [pc EXCEPT ![w] = "cumsum_exscan"]
    /\ UNCHANGED <<cfgvars, deviant, callNo, cur, scalars, arrvars, in_arr, out_arr, c,
                   prefix_var, i, returned, errvars, partvars>>

\* line 104: prefix_var receives the scan's result
CumsumExscanReturn(w) ==
    /\ pc[w] = "cumsum_exscan"
    /\ hpat_dist_complete(w)
    /\ prefix_var' = [prefix_var EXCEPT ![w] = NativeResult(w)]
    /\ i' = [i EXCEPT ![w] = 0]
    /\ Logged(w, <<"scanned">>)
    /\ returned' = [returned EXCEPT ![w] = @ + 1]
    /\ pc' = [pc EXCEPT ![w] = "cumsum_scan"]
    /\ UNCHANGED <<cfgvars, deviant, callNo, cur, scalars, arrvars, in_arr, out_arr, c,
                   issued, errvars, partvars>>

\* the scan step with its two statements swapped: out_arr[i] is stored
\* before the element is added
CumsumScanStep_m(w) ==
    /\ pc[w] = "cumsum_scan"
    /\ i[w] < Len(in_arr[w])
    /\ out_arr' = [out_arr EXCEPT ![w][i[w] + 1] = prefix_var[w]]
    /\ prefix_var' = [prefix_var EXCEPT ![w] = add(cur[w].typ, @, in_arr[w][i[w] + 1])]
    /\ i' = [i EXCEPT ![w] = @ + 1]
    /\ Logged(w, <<"write", i[w]>>)
    /\ UNCHANGED <<cfgvars, deviant, pc, callNo, cur, scalars, arrvars, in_arr, c,
                   netvars, errvars, partvars>>

\* the inclusive scan walks the arrays from the last index to the first
CumsumScanStep_r(w) ==
    /\ pc[w] = "cumsum_scan"
    /\ i[w] < Len(in_arr[w])
    /\ LET j == Len(in_arr[w]) - i[w]
           p == add(cur[w].typ, prefix_var[w], in_arr[w][j])
       IN  /\ prefix_var' = [prefix_var EXCEPT ![w] = p]
           /\ out_arr' = [out_arr EXCEPT ![w][j] = p]
           /\ Logged(w, <<"write", j - 1>>)
    /\ i' = [i EXCEPT ![w] = @ + 1]
    /\ UNCHANGED <<cfgvars, deviant, pc, callNo, cur, scalars, arrvars, in_arr, c,
                   netvars, errvars, partvars>>

\* what a store past the end of out_arr may do: the compiled loop checks
\* no bounds, so the store lands in memory that is not out_arr's ("stray")
\* or the process is killed ("fault")
StrayStore == {"stray", "fault"}

\* lines 105-107: one iteration of the local inclusive scan
CumsumScanStep(w) ==
    /\ pc[w] = "cumsum_scan"
    /\ i[w] < Len(in_arr[w])
    /\ LET p == add(cur[w].typ, prefix_var[w], in_arr[w][i[w] + 1]) IN
          /\ prefix_var' = [prefix_var EXCEPT ![w] = p]
          /\ IF i[w] < Len(out_arr[w])
             THEN /\ out_arr' = [out_arr EXCEPT ![w][i[w] + 1] = p]
                  /\ Logged(w, <<"write", i[w]>>)
                  /\ UNCHANGED pc
             ELSE /\ UNCHANGED out_arr
                  /\ \E o \in StrayStore :
                        /\ Logged(w, <<o, i[w]>>)
                        /\ pc' = [pc EXCEPT ![w] = IF o = "fault" THEN "crashed" ELSE @]
    /\ i' = [i EXCEPT ![w] = @ + 1]
    /\ UNCHANGED <<cfgvars, deviant, callNo, cur, scalars, arrvars, in_arr, c,
                   netvars, errvars, partvars>>

\* line 108: return 0; the locals go out of scope
CumsumReturn(w) ==
    /\ pc[w] = "cumsum_scan"
    /\ i[w] = Len(in_arr[w])
    /\ res' = [res EXCEPT ![w] = 0]
    /\ c' = [c EXCEPT ![w] = 0]
    /\ prefix_var' = [prefix_var EXCEPT ![w] = 0]
    /\ i' = [i EXCEPT ![w] = 0]
    /\ pc' = [pc EXCEPT ![w] = "idle"]
    /\ UNCHANGED <<cfgvars, deviant, callNo, cur, val, arrvars, in_arr, out_arr, log,
                   netvars, errvars, partvars>>

\* the deviant's program ends before the plan does
Exit(w) ==
    /\ pc[w] = "idle"
    /\ w = deviant
    /\ callNo[w] < Len(plan)
    /\ pc' = [pc EXCEPT ![w] = "done"]
    /\ deviant' = NoWorker
    /\ UNCHANGED <<cfgvars, callNo, cur, scalars, arrvars, cumvars, netvars,
                   errvars, partvars>>

\* -------------------------------------------------------- partitioner
Extras == {0, 1}    \* values drawn for the second int64 argument

\* hpat_dist_get_node_portion: base = total div n, remainder = total mod n;
\* the `remainder` lowest ranks get base + 1 elements, the rest get base
hpat_dist_get_node_portion(total, x, rank, n) ==
    LET base == total \div n
        remainder == total % n
    IN  IF rank < remainder THEN base + 1 ELSE base

RECURSIVE hpat_dist_get_end(_, _, _, _)
\* hpat_dist_get_end: the cumulative sum of the sizes of the ranks <= rank
hpat_dist_get_end(total, x, rank, n) ==
    IF rank < 0 THEN 0
    ELSE hpat_dist_get_end(total, x, rank - 1, n)
         + hpat_dist_get_node_portion(total, x, rank, n)

\* dist_get_end lowered to the portion's symbol
dist_get_end_m(args) ==
    hpat_dist_get_node_portion(args[1], args[2], args[3], args[4])

\* lines 39-43: the four arguments are handed on in order
dist_get_end(args) == hpat_dist_get_end(args[1], args[2], args[3], args[4])

\* dist_get_portion lowered to the end's symbol
dist_get_portion_m(args) == hpat_dist_get_end(args[1], args[2], args[3], args[4])

\* lines 46-50
dist_get_portion(args) ==
    hpat_dist_get_node_portion(args[1], args[2], args[3], args[4])

GetEnd(r) ==
    /\ ends[r] = -1
    /\ ends' = [ends EXCEPT ![r] = dist_get_end(<<totalLength, extra, r, numPes>>)]
    /\ UNCHANGED <<cfgvars, deviant, pc, callNo, cur, scalars, arrvars, cumvars, netvars,
                   errvars, totalLength, numPes, extra, sizes>>

GetPortion(r) ==
    /\ sizes[r] = -1
    /\ sizes' = [sizes EXCEPT ![r] = dist_get_portion(<<totalLength, extra, r, numPes>>)]
    /\ UNCHANGED <<cfgvars, deviant, pc, callNo, cur, scalars, arrvars, cumvars, netvars,
                   errvars, totalLength, numPes, extra, ends>>

\* ------------------------------------------------------ specifications
\* the call sequences of at most n calls within the limits l
Plans(l) == UNION {[1..n -> AllCalls(l.len, l.types)] : n \in 1..l.calls}

InitWorkers(l) ==
    /\ lim = l
    /\ worldSize \in 1..MaxWorld
    /\ plan \in Plans(l)
    /\ pc = [w \in Workers |-> "idle"]
    /\ callNo = [w \in Workers |-> 0]
    /\ cur = [w \in Workers |-> NoCall]
    /\ val = [w \in Workers |-> 0]
    /\ res = [w \in Workers |-> 0]
    /\ buf = [w \in Workers |-> NoBuf]
    /\ buf0 = [w \in Workers |-> NoBuf]
    /\ in_arr = [w \in Workers |-> <<>>]
    /\ out_arr = [w \in Workers |-> <<>>]
    /\ c = [w \in Workers |-> 0]
    /\ prefix_var = [w \in Workers |-> 0]
    /\ i = [w \in Workers |-> 0]
    /\ log = [w \in Workers |-> <<>>]
    /\ issued = [w \in Workers |-> <<>>]
    /\ returned = [w \in Workers |-> 0]
    /\ err = [w \in Workers |-> "none"]
    /\ errCount = [w \in Workers |-> 0]

NoPartition ==
    /\ totalLength = 0
    /\ numPes = 1
    /\ extra = 0
    /\ ends = [r \in {0} |-> -1]
    /\ sizes = [r \in {0} |-> -1]

\* every worker makes one and the same call, on operands of up to MaxLen
\* elements
OneCall == [calls |-> 1, len |-> MaxLen, vals |-> Values, svals |-> ScalarValues,
            types |-> AllTypes, dtypes |-> AllTypes, slack |-> {0}, num |-> "small"]

Init ==
    /\ InitWorkers(OneCall)
    /\ deviant = NoWorker
    /\ NoPartition

Next ==
    \/ \E w \in Workers : Unsupported(w)
    \/ \E w \in Workers : ReduceCall(w)
    \/ \E w \in Workers : ReduceReturn(w)
    \/ \E w \in Workers : ExscanCall(w)
    \/ \E w \in Workers : ExscanReturn(w)
    \/ \E w \in Workers : ArrReduceCall(w)
    \/ \E w \in Workers : ArrReduceReturn(w)
    \/ \E w \in Workers : CumsumCall(w)
    \/ \E w \in Workers : CumsumSumStep(w)
    \/ \E w \in Workers : CumsumExscan(w)
    \/ \E w \in Workers : CumsumExscanReturn(w)
    \/ \E w \in Workers : CumsumScanStep(w)
    \/ \E w \in Workers : CumsumReturn(w)

Spec == Init /\ [][Next]_vars

\* call sequences of up to MaxCalls calls on operands of at most one
\* element, with one worker that may leave the common sequence
ManyCalls == [calls |-> MaxCalls, len |-> 1, vals |-> {1}, svals |-> {1},
              types |-> {"int32", "int16"},
              dtypes |-> {"int32", "float64"}, slack |-> {0}, num |-> "small"]

InitSeq ==
    /\ InitWorkers(ManyCalls)
    /\ deviant \in {NoWorker} \cup Workers
    /\ NoPartition

NextSeq ==
    \/ Next
    \/ \E w \in Workers : Exit(w)

SpecSeq == InitSeq /\ [][NextSeq]_vars

\* the steps of worker w
Step(w) ==
    /\ w \in Workers
    /\ \/ Unsupported(w)
       \/ ReduceCall(w)
       \/ ReduceReturn(w)
       \/ ExscanCall(w)
       \/ ExscanReturn(w)
       \/ ArrReduceCall(w)
       \/ ArrReduceReturn(w)
       \/ CumsumCall(w)
       \/ CumsumSumStep(w)
       \/ CumsumExscan(w)
       \/ CumsumExscanReturn(w)
       \/ CumsumScanStep(w)
       \/ CumsumReturn(w)

\* every worker is a process of its own: one that can take a step of its
\* program eventually takes it
FairSeq == SpecSeq /\ \A w \in 0..(MaxWorld - 1) : WF_vars(Step(w))

\* one call by every worker, cumulativeSum's output array as long as the
\* input array, longer or shorter
AnyLength == [calls |-> 1, len |-> MaxLen, vals |-> {1}, svals |-> {1},
              types |-> {"int32", "int16"}, dtypes |-> {"int32", "int16"},
              slack |-> (0 - MaxLen)..MaxLen, num |-> "small"]

InitShape ==
    /\ InitWorkers(AnyLength)
    /\ deviant = NoWorker
    /\ NoPartition

SpecShape == InitShape /\ [][Next]_vars

\* one call by every worker on numbers in their exact representation:
\* integers near the limits of their type, floats as expressions
ExactNumbers == [calls |-> 1, len |-> MaxLen, vals |-> {}, svals |-> {},
                 types |-> {"int32", "int64", "float32", "float64", "int16"},
                 dtypes |-> {"int32", "int64", "float32", "float64", "int16"},
                 slack |-> {0}, num |-> "exact"]

InitExact ==
    /\ InitWorkers(ExactNumbers)
    /\ deviant = NoWorker
    /\ NoPartition

SpecExact == InitExact /\ [][Next]_vars

\* the partitioner's queries for one (totalLength, worldSize)
InitPart ==
    /\ InitWorkers(OneCall)
    /\ worldSize = 1
    /\ plan = <<[op |-> "reduce", typ |-> "int32", shape |-> <<>>]>>
    /\ deviant = NoWorker
    /\ totalLength \in 0..MaxTotal
    /\ numPes \in 1..MaxPes
    /\ extra \in Extras
    /\ ends = [r \in 0..(numPes - 1) |-> -1]
    /\ sizes = [r \in 0..(numPes - 1) |-> -1]

NextPart ==
    \/ \E r \in 0..(numPes - 1) : GetEnd(r)
    \/ \E r \in 0..(numPes - 1) : GetPortion(r)

SpecPart == InitPart /\ [][NextPart]_vars

\* ---------------------------------------------------------- properties
RECURSIVE Concat(_, _)
\* f[0] \o ... \o f[n-1]
Concat(f, n) == IF n = 0 THEN <<>> ELSE Concat(f, n - 1) \o f[n - 1]

\* the cumulative sum a single worker computes over the whole array g
SeqCumsum(g) == [k \in 1..Len(g) |-> SumSeq(SubSeq(g, 1, k))]

\* worker w has returned from a call of op, and every worker's current
\* call is the call of op at the same position of its sequence
Returned(w, op) ==
    /\ pc[w] = "idle"
    /\ callNo[w] > 0
    /\ err[w] = "none"
    /\ \A v \in Workers : cur[v].op = op /\ callNo[v] = callNo[w]

\* C1: once a worker has returned from cumulativeSum, its output shard is
\* the part of the whole array's cumulative sum that belongs to its global
\* index range: out[i] is the sum of the global elements 0..i, whatever
\* worldSize and the shard boundaries (empty shards included) are
T_C1 ==
    \A w \in Workers :
        Returned(w, "cumsum") =>
            LET g == Concat(in_arr, worldSize)
                lo == Len(Concat(in_arr, w))
            IN  out_arr[w] = SubSeq(SeqCumsum(g), lo + 1, lo + Len(in_arr[w]))

\* three workers, the middle shard empty, all returned
W_C1 ==
    /\ worldSize = 3
    /\ \A w \in Workers : Returned(w, "cumsum")
    /\ in_arr = (0 :> <<1, 2>> @@ 1 :> <<>> @@ 2 :> <<2, 2>>)
    /\ out_arr = (0 :> <<1, 3>> @@ 1 :> <<>> @@ 2 :> <<5, 7>>)

\* C2: once a worker has returned from exclusiveScan, called by all
\* workers, worker r holds the sum of the values of workers 0..r-1; worker
\* 0 holds 0 whatever it passed
T_C2 ==
    \A w \in Workers :
        Returned(w, "exscan") =>
            /\ res[w] = SumTo(val, w)
            /\ w = 0 => res[w] = 0

\* local values 10, 20, 5 in rank order give 0, 10, 30
W_C2 ==
    /\ worldSize = 3
    /\ \A w \in Workers : Returned(w, "exscan")
    /\ val = (0 :> 10 @@ 1 :> 20 @@ 2 :> 5)
    /\ res = (0 :> 0 @@ 1 :> 10 @@ 2 :> 30)

\* C3: once a worker has returned from reduceScalar, called by all
\* workers, it holds the sum of every worker's value, the same on every
\* worker that has returned; a sole worker gets its own value back
T_C3 ==
    \A w \in Workers :
        Returned(w, "reduce") =>
            /\ res[w] = SumTo(val, worldSize)
            /\ \A v \in Workers : Returned(v, "reduce") => res[v] = res[w]
            /\ worldSize = 1 => res[w] = val[w]

\* local values 10, 20, 5 give 35 on every worker
W_C3 ==
    /\ worldSize = 3
    /\ \A w \in Workers : Returned(w, "reduce")
    /\ val = (0 :> 10 @@ 1 :> 20 @@ 2 :> 5)
    /\ \A w \in Workers : res[w] = 35

\* C4: once a worker has returned from reduceArray, called by all workers
\* with equally-shaped buffers, its buffer keeps its shape and holds at
\* each position the sum of every worker's element at that position; a
\* sole worker's buffer is unchanged
T_C4 ==
    \A w \in Workers :
        (Returned(w, "arr_reduce") /\ \A v \in Workers : buf0[v].shape = buf0[w].shape) =>
            /\ buf[w].shape = buf0[w].shape
            /\ Len(buf[w].data) = Len(buf0[w].data)
            /\ \A j \in 1..Len(buf0[w].data) :
                  buf[w].data[j] = SumTo([v \in Workers |-> buf0[v].data[j]], worldSize)
            /\ worldSize = 1 => buf[w] = buf0[w]

\* three workers, buffers of two elements, all returned
W_C4 ==
    /\ worldSize = 3
    /\ \A w \in Workers : Returned(w, "arr_reduce")
    /\ \A w \in Workers : buf0[w].shape = <<1, 2>>
    /\ buf0[0].data = <<1, 2>> /\ buf0[1].data = <<2, 2>> /\ buf0[2].data = <<1, 1>>
    /\ \A w \in Workers : buf[w].data = <<4, 5>>

\* the partitioner's answers: rank r's end and size, once asked
Ranks == 0..(numPes - 1)
EndKnown(r) == r = -1 \/ ends[r] # -1
EndOf(r) == IF r = -1 THEN 0 ELSE ends[r]
SizeKnown(r) == sizes[r] # -1

\* C5: the partition tiles [0, totalLength): each rank's end minus the
\* end of the rank below (0 below rank 0) is its size, the ends do not
\* decrease with the rank, the last end is totalLength, and the sizes sum
\* to totalLength
T_C5 ==
    /\ \A r \in Ranks :
          /\ (EndKnown(r) /\ EndKnown(r - 1) /\ SizeKnown(r)) =>
                EndOf(r) - EndOf(r - 1) = sizes[r]
          /\ (EndKnown(r) /\ EndKnown(r - 1)) => EndOf(r - 1) <= EndOf(r)
          /\ (EndKnown(r) /\ r = numPes - 1) => EndOf(r) = totalLength
          /\ SizeKnown(r) => sizes[r] >= 0
    /\ (\A r \in Ranks : SizeKnown(r)) => SumTo(sizes, numPes) = totalLength

\* 5 elements over 3 workers: ends 2, 4, 5 and sizes 2, 2, 1
W_C5 ==
    /\ totalLength = 5
    /\ numPes = 3
    /\ ends = (0 :> 2 @@ 1 :> 4 @@ 2 :> 5)
    /\ sizes = (0 :> 2 @@ 1 :> 2 @@ 2 :> 1)

\* C6: the partition is balanced: with base = totalLength div worldSize
\* and remainder = totalLength mod worldSize, a rank below remainder has
\* base + 1 elements and the others base, so two sizes differ by at most
\* 1; when totalLength < worldSize the ranks from totalLength on have 0,
\* and a sole worker has everything
T_C6 ==
    /\ \A r \in Ranks :
          SizeKnown(r) =>
              /\ sizes[r] = (totalLength \div numPes)
                            + (IF r < totalLength % numPes THEN 1 ELSE 0)
              /\ (totalLength < numPes /\ r >= totalLength) => sizes[r] = 0
              /\ numPes = 1 => sizes[r] = totalLength
    /\ \A r \in Ranks, q \in Ranks :
          (SizeKnown(r) /\ SizeKnown(q)) => sizes[r] - sizes[q] <= 1

\* 2 elements over 4 workers: sizes 1, 1, 0, 0
W_C6 ==
    /\ totalLength = 2
    /\ numPes = 4
    /\ sizes = (0 :> 1 @@ 1 :> 1 @@ 2 :> 0 @@ 3 :> 0)

\* the native symbols of the two reductions
Reductions == {"hpat_dist_reduce", "hpat_dist_arr_reduce"}

\* C7: a reduction is barrier-like: a worker has returned from its k-th
\* collective, a reduceScalar or reduceArray, only if every worker has
\* entered its k-th collective, a reduction too, and handed over its operand
T_C7 ==
    \A w \in Workers : \A k \in 1..returned[w] :
        issued[w][k].fn \in Reductions =>
            \A v \in Workers : /\ Len(issued[v]) >= k
                               /\ issued[v][k].fn = issued[w][k].fn

\* of three workers one has returned from reduceScalar with the sum while
\* another is still inside the call
W_C7 ==
    /\ worldSize = 3
    /\ \E w \in Workers, v \in Workers :
          /\ pc[w] = "idle" /\ cur[w].op = "reduce" /\ returned[w] = 1 /\ res[w] = 3
          /\ pc[v] = "reduce" /\ returned[v] = 0

\* worker w is blocked in a native collective
Pending(w) == returned[w] < Len(issued[w])

\* worker v's program has ended
Gone(v) == pc[v] \in {"done", "crashed"} \/ (pc[v] = "idle" /\ callNo[v] = Len(plan))

\* same operation and type
SameCollective(a, b) ==
    /\ a.fn = b.fn
    /\ a.typ_str = b.typ_str
    /\ a.fn = "hpat_dist_arr_reduce" => a.arg.typ_enum = b.arg.typ_enum

\* worker w is blocked in its k-th collective and some worker has issued
\* a different collective as its k-th, or has ended with fewer than k
Hopeless(w) ==
    /\ Pending(w)
    /\ LET k == Len(issued[w]) IN
       \E v \in Workers :
          \/ Len(issued[v]) >= k /\ ~SameCollective(issued[v][k], issued[w][k])
          \/ Len(issued[v]) < k /\ Gone(v)

\* C8: a worker's k-th collective completes only if every worker has
\* issued the same collective (operation and type) as its k-th; a worker
\* blocked in a collective that some worker has mismatched, or ended
\* without issuing, stays blocked in every later state, and no error is
\* raised on it
T_C8 ==
    [][\A w \in Workers :
          /\ returned'[w] > returned[w] =>
                LET k == returned[w] + 1 IN
                \A v \in Workers : /\ Len(issued[v]) >= k
                                   /\ SameCollective(issued[v][k], issued[w][k])
          /\ Hopeless(w) =>
                /\ Hopeless(w)'
                /\ pc'[w] = pc[w]
                /\ returned'[w] = returned[w]
                /\ err'[w] = err[w]]_vars

\* three workers, one blocked for ever in a scan of int32 that another
\* issued as a scan of float64
W_C8 ==
    /\ worldSize = 3
    /\ \E w \in Workers, v \in Workers :
          /\ Hopeless(w)
          /\ Len(issued[v]) = Len(issued[w])
          /\ issued[w][Len(issued[w])].fn = "hpat_dist_exscan"
          /\ issued[v][Len(issued[w])].fn = "hpat_dist_exscan"
          /\ issued[w][Len(issued[w])].typ_str = "i4"
          /\ issued[v][Len(issued[w])].typ_str = "f8"

\* every worker has made every call of the plan and is back from it
Finished ==
    \A w \in Workers :
        /\ pc[w] = "idle"
        /\ callNo[w] = Len(plan)
        /\ returned[w] = Len(issued[w])

\* the native call worker v is blocked in can return now
CanReturn(v) ==
    ENABLED (\/ ReduceReturn(v)
             \/ ExscanReturn(v)
             \/ ArrReduceReturn(v)
             \/ CumsumExscanReturn(v))

\* no collective is completed by one worker and entered, but not
\* completable, by another
AllOrNothing ==
    \A w \in Workers : \A k \in 1..returned[w] :
        \A v \in Workers :
            Len(issued[v]) >= k => (returned[v] >= k \/ CanReturn(v))

\* C9: when no worker leaves the common call sequence, every worker
\* eventually is back from every call of it, under fair scheduling of the
\* workers; and in every execution, whenever one worker has completed a
\* collective, every worker that has entered it has completed it or can
\* complete it now
T_C9 ==
    /\ []AllOrNothing
    /\ (deviant = NoWorker) => <>Finished

\* three workers are back from two calls, the second a cumulativeSum
W_C9 ==
    /\ worldSize = 3
    /\ Len(plan) = 2
    /\ plan[2].op = "cumsum"
    /\ Finished
    /\ \A w \in Workers : returned[w] = 2

\* the element types the primitives support
SupportedTypes == {"int32", "int64", "float32", "float64"}

\* worker w's current call has not issued a native collective: each
\* earlier call issued one or failed
IssuedNothing(w) ==
    Len(issued[w]) = callNo[w] - 1 - errCount[w] + (IF err[w] = "none" THEN 0 ELSE 1)

\* another worker's reduceArray at the same position of its call
\* sequence has another shape or element type
Mismatched(w) ==
    \E v \in Workers :
        /\ callNo[v] = callNo[w]
        /\ cur[v].op = "arr_reduce"
        /\ cur[v].shape # cur[w].shape \/ cur[v].typ # cur[w].typ

\* C10 as stated: a call on an unsupported element type fails with
\* UnsupportedType, and a reduceArray call whose shape or type differs from
\* another worker's fails with ShapeMismatch or TypeMismatch, both before
\* the caller has issued a native collective
CE_C10 ==
    \A w \in Workers :
        callNo[w] > 0 =>
            /\ cur[w].typ \notin SupportedTypes =>
                  err[w] = "UnsupportedType" /\ IssuedNothing(w)
            /\ (cur[w].op = "arr_reduce" /\ cur[w].typ \in SupportedTypes
                /\ Mismatched(w)) =>
                  err[w] \in {"ShapeMismatch", "TypeMismatch"} /\ IssuedNothing(w)

\* C10, amended: a call fails, with UnsupportedType, exactly when its
\* element type is unsupported; the failed call has issued no native
\* collective and leaves the worker free to make its next call; no call
\* fails with ShapeMismatch or TypeMismatch, and a reduceArray call on a
\* supported type has issued its collective whatever the other workers'
\* shapes and types are
T_C10 ==
    \A w \in Workers :
        /\ err[w] \in {"none", "UnsupportedType"}
        /\ callNo[w] > 0 =>
              (err[w] = "UnsupportedType" <=> cur[w].typ \notin SupportedTypes)
        /\ err[w] = "UnsupportedType" =>
              IssuedNothing(w) /\ ~Pending(w) /\ pc[w] \in {"idle", "done"}
        /\ (callNo[w] > 0 /\ cur[w].op = "arr_reduce" /\ cur[w].typ \in SupportedTypes) =>
              ~IssuedNothing(w)

\* after a first call that failed with UnsupportedType, two workers are
\* inside reduceArray calls of different shapes, both issued
W_C10 ==
    \E w \in Workers, v \in Workers :
        /\ errCount[w] = 1 /\ errCount[v] = 1
        /\ pc[w] = "arr_reduce" /\ pc[v] = "arr_reduce"
        /\ callNo[w] = 2 /\ callNo[v] = 2
        /\ cur[w].shape # cur[v].shape
        /\ Len(issued[w]) = 1 /\ Len(issued[v]) = 1

\* the events of kind k in worker w's history of its current call
Events(w, k) == {n \in 1..Len(log[w]) : log[w][n][1] = k}

\* C11 as stated: a cumulativeSum call whose input and output arrays
\* differ in length fails with ShapeMismatch, and has neither issued the
\* exclusive scan nor stored an element (into the output array or past it)
CE_C11 ==
    \A w \in Workers :
        (/\ callNo[w] > 0
         /\ cur[w].op = "cumsum"
         /\ cur[w].typ \in SupportedTypes
         /\ Len(in_arr[w]) # Len(out_arr[w])) =>
            /\ err[w] = "ShapeMismatch"
            /\ IssuedNothing(w)
            /\ Events(w, "scan") = {}
            /\ Events(w, "write") \cup Events(w, "stray") \cup Events(w, "fault") = {}

RECURSIVE Accum(_, _, _, _)
\* the first k elements of s added to p one at a time, from left to right
Accum(typ, p, s, k) ==
    IF k = 0 THEN p ELSE add(typ, Accum(typ, p, s, k - 1), s[k])

\* worker w has returned from a cumulativeSum, called by all workers, on
\* elements of a type of T
ReturnedCumsum(w, T) == Returned(w, "cumsum") /\ cur[w].typ \in T

\* C12 as stated: for floats, every output element is, operand by operand
\* and bracket by bracket, the sequential accumulation
\* ((x0 + x1) + x2) + ... + xi over the global array
CE_C12 ==
    \A w \in Workers :
        ReturnedCumsum(w, Floats) =>
            LET t == cur[w].typ
                g == Concat(in_arr, worldSize)
                lo == Len(Concat(in_arr, w))
            IN  \A j \in 1..Len(in_arr[w]) :
                    out_arr[w][j] = Accum(t, zero(t), g, lo + j)

\* C12, amended: for floats, worker r's output element j is
\* (..((P + y1) + y2).. + yj) over its own elements y1, y2, ..., where P is
\* the exclusive scan of the lower-ranked workers' local totals, each the
\* left-to-right sum of that worker's shard; on workers 0 and 1 this is
\* bracket by bracket the sequential accumulation over the global array
T_C12 ==
    \A w \in Workers :
        ReturnedCumsum(w, Floats) =>
            LET t == cur[w].typ
                total(v) == Accum(t, zero(t), in_arr[v], Len(in_arr[v]))
                P == Fold(t, [v \in Workers |-> total(v)], w)
                g == Concat(in_arr, worldSize)
                lo == Len(Concat(in_arr, w))
            IN  \A j \in 1..Len(in_arr[w]) :
                    /\ out_arr[w][j] = Accum(t, P, in_arr[w], j)
                    /\ w <= 1 => out_arr[w][j] = Accum(t, zero(t), g, lo + j)

\* shards [a], [a, b], [b] of float64: worker 2's element is
\* (a + (a + b)) + b, not ((a + a) + b) + b
W_C12 ==
    /\ worldSize = 3
    /\ \A w \in Workers : ReturnedCumsum(w, {"float64"})
    /\ in_arr = (0 :> << <<"a">> >> @@ 1 :> << <<"a">>, <<"b">> >> @@ 2 :> << <<"b">> >>)
    /\ out_arr[1] = << <<"+", <<"a">>, <<"a">> >>,
                       <<"+", <<"+", <<"a">>, <<"a">> >>, <<"b">> >> >>
    /\ out_arr[2] = << <<"+", <<"+", <<"a">>, <<"+", <<"a">>, <<"b">> >> >>, <<"b">> >> >>

\* the history of a complete cumulativeSum call on n elements: the reads
\* of the local reduction, the scan issued, the scan returned, the stores
Canon(n) ==
    [k \in 1..(2 * n + 2) |->
        IF k <= n THEN <<"read", k - 1>>
        ELSE IF k = n + 1 THEN <<"scan">>
        ELSE IF k = n + 2 THEN <<"scanned">>
        ELSE <<"write", k - n - 3>>]

\* C13: at every point of a cumulativeSum call on n elements the worker
\* has done an initial part of: read elements 0..n-1 in order, issue one
\* exclusive scan (its operand the local sum, zero for an empty shard),
\* get its result, store out elements 0..n-1 in order, once each; a call
\* that has returned has done all of it; the native calls the worker has
\* issued and completed are exactly the scans of this history, so neither
\* local phase communicates, and an out element differs from its initial
\* zero exactly if its store is in the history
T_C13 ==
    \A w \in Workers :
        (callNo[w] > 0 /\ cur[w].op = "cumsum" /\ err[w] = "none") =>
            LET n == Len(in_arr[w]) IN
            /\ Len(log[w]) <= 2 * n + 2
            /\ log[w] = SubSeq(Canon(n), 1, Len(log[w]))
            /\ pc[w] = "idle" => log[w] = Canon(n)
            /\ Len(issued[w]) = Cardinality(Events(w, "scan"))
            /\ returned[w] = Cardinality(Events(w, "scanned"))
            /\ Len(issued[w]) = 1 =>
                  /\ issued[w][1].fn = "hpat_dist_exscan"
                  /\ issued[w][1].arg = SumSeq(in_arr[w])
            /\ \A j \in 1..Len(out_arr[w]) :
                  out_arr[w][j] # 0 <=> Len(log[w]) >= n + 2 + j

\* three workers back from cumulativeSum: the middle one, its shard empty,
\* has issued its scan with operand 0 and stored nothing
W_C13 ==
    /\ worldSize = 3
    /\ \A w \in Workers : Returned(w, "cumsum")
    /\ in_arr = (0 :> <<1, 2>> @@ 1 :> <<>> @@ 2 :> <<2, 1>>)
    /\ log[1] = << <<"scan">>, <<"scanned">> >>
    /\ issued[1][1].arg = 0
    /\ log[2] = << <<"read", 0>>, <<"read", 1>>, <<"scan">>, <<"scanned">>,
                   <<"write", 0>>, <<"write", 1>> >>

\* the fixed-width integer types
IntTypes == {"int32", "int64"}

RECURSIVE Carry(_, _)
\* the digits of a number given by its column sums, lowest first; what
\* exceeds the last digit is dropped
Carry(cols, carry) ==
    IF cols = <<>> THEN <<>>
    ELSE LET t == cols[1] + carry
         IN  <<t % Base>> \o Carry(Tail(cols), t \div Base)

\* the true sum of the first k elements of g, reduced modulo 2^w to a bit
\* pattern of the type: the elements' digits are summed column by column
\* without any wrapping, and the carries are propagated once
TrueSum(typ, g, k) ==
    Carry([d \in 1..Limbs(typ) |-> SumSeq([e \in 1..k |-> g[e][d]])], 0)

\* C14: for int32 and int64, once a worker has returned from
\* cumulativeSum, each of its output elements is the true sum of the
\* global elements 0..i reduced into the range of the type, which is also
\* what a single worker accumulating the global array in that type
\* computes, although the local totals and running prefixes wrap
T_C14 ==
    \A w \in Workers :
        ReturnedCumsum(w, IntTypes) =>
            LET t == cur[w].typ
                g == Concat(in_arr, worldSize)
                lo == Len(Concat(in_arr, w))
            IN  /\ Len(out_arr[w]) = Len(in_arr[w])
                /\ \A j \in 1..Len(in_arr[w]) :
                      /\ out_arr[w][j] = TrueSum(t, g, lo + j)
                      /\ out_arr[w][j] = Accum(t, zero(t), g, lo + j)

\* int32 shards [max, max], [max], [min]: the first local total wraps to
\* -2, and the outputs are max, -2; 2^31 - 3; -3
W_C14 ==
    /\ worldSize = 3
    /\ \A w \in Workers : ReturnedCumsum(w, {"int32"})
    /\ in_arr = (0 :> <<IntMax("int32"), IntMax("int32")>>
                 @@ 1 :> <<IntMax("int32")>> @@ 2 :> <<IntMin("int32")>>)
    /\ issued[0][1].arg = <<Base - 2, Base - 1>>
    /\ out_arr = (0 :> <<IntMax("int32"), <<Base - 2, Base - 1>> >>
                  @@ 1 :> << <<Base - 3, (Base \div 2) - 1>> >>
                  @@ 2 :> << <<Base - 3, Base - 1>> >>)

====
